---- MODULE Spec2Model ----
(***************************************************************************)
(* A model of menu-ai's app.py: the text helpers (trim_menu_days,          *)
(* parse_shopping_list, uniq_keep_order), the entitlement test is_premium  *)
(* and the page run (quota gate, generation, usage counter, history).      *)
(*                                                                         *)
(* A text is a sequence of tokens.  Each token stands for one character,   *)
(* or for a literal the regular expressions of app.py only match whole:    *)
(*   "M" = the menu marker            "Z" = the materials marker           *)
(*   "T" = the instructions marker    "S" = the shopping-list marker       *)
(*   "NL" = newline   "SP" = space    "1" "2" = decimal digits             *)
(*   "D" = the day suffix (two characters, matched as one literal)         *)
(*   "c" = full-width colon   "a" = ASCII colon                            *)
(*   "b" = the bullet dot     "-" = hyphen     "x" "y" = any other letter  *)
(***************************************************************************)
EXTENDS Integers, Sequences, FiniteSets, TLC

VARIABLES
    text,        \* pure-function specifications: the GeneratedText given
    reqDays,     \* the day count N given to trim_menu_days
    out,         \* the text trim_menu_days returned
    parsed,      \* the value parse_shopping_list returned
    items,       \* the list given to uniq_keep_order
    uniq1,       \* uniq_keep_order(items)
    uniq2,       \* uniq_keep_order(uniq1)
    phase,       \* "in" before the function is applied, "done"/"twice" after
    now,         \* the clock: time.time() and date.today() are read from it
    usage,       \* table usage: (user_id, day) -> count, 0 when no row
    history,     \* table history: the rows in insertion (id) order
    subscriptions, \* table subscriptions: user_id -> row, NoRow when absent
    pc,          \* per page run: where the script is
    uid,         \* per session: user_id, the query parameter uid
    premium,     \* per page run: premium = is_premium(user_id), line 423
    today,       \* per page run: today = str(date.today()), line 89
    mode,        \* per page run: recipe_mode ("recipe") or not ("menu")
    days,        \* per page run: the days widget
    raw,         \* per page run: res.output_text as the generator returned it
    result,      \* per page run: the variable result
    count,       \* per page run: increment_count's local count
    day_items,   \* per page run: day_items = parse_shopping_list(result)
    runs         \* page runs started so far

textVars == <<text, reqDays, out, parsed, items, uniq1, uniq2, phase>>
dbVars   == <<now, usage, history, subscriptions, runs>>
runVars  == <<pc, uid, premium, today, mode, days, raw, result, count,
              day_items>>
vars     == <<textVars, dbVars, runVars>>

-----------------------------------------------------------------------------
(* Bounds of the model *)

MaxSegs == 4
MaxDays == 2
MaxItems == 4
MaxRuns == 2
MaxNow == 1

-----------------------------------------------------------------------------
(* Characters and strings *)

Digits == {"1", "2"}
Space == {"NL", "SP"}

IsDigit(t) == t \in Digits

MinOf(S) == CHOOSE m \in S : \A o \in S : m <= o

\* str.strip(): whitespace removed at both ends
RECURSIVE LStrip(_)
LStrip(s) ==
    IF s = <<>> THEN <<>>
    ELSE IF Head(s) \in Space THEN LStrip(Tail(s)) ELSE s

RECURSIVE RStrip(_)
RStrip(s) ==
    IF s = <<>> THEN <<>>
    ELSE IF s[Len(s)] \in Space THEN RStrip(SubSeq(s, 1, Len(s) - 1)) ELSE s

Strip(s) == RStrip(LStrip(s))

\* str.lstrip(chars)
RECURSIVE LStripChars(_, _)
LStripChars(s, chars) ==
    IF s = <<>> THEN <<>>
    ELSE IF Head(s) \in chars THEN LStripChars(Tail(s), chars) ELSE s

\* sep.join(parts)
RECURSIVE Join(_, _)
Join(parts, sep) ==
    IF parts = <<>> THEN <<>>
    ELSE IF Len(parts) = 1 THEN parts[1]
    ELSE parts[1] \o sep \o Join(Tail(parts), sep)

\* the regular expression \d+ followed by the day suffix and a full-width
\* colon, tried at index i of s: the length of the match, 0 when none
DayLabelLen(s, i) ==
    IF i > Len(s) \/ ~IsDigit(s[i]) THEN 0
    ELSE LET j == MinOf({k \in i..(Len(s) + 1) :
                            k = Len(s) + 1 \/ ~IsDigit(s[k])})
         IN  IF j + 1 <= Len(s) /\ s[j] = "D" /\ s[j + 1] = "c"
             THEN j + 2 - i ELSE 0

\* $ without re.MULTILINE: the end of s, or just before a final newline
AtDollar(s, e) == e = Len(s) + 1 \/ (e = Len(s) /\ s[e] = "NL")

-----------------------------------------------------------------------------
(* trim_menu_days, app.py 367-384 *)

SectionEnders == {"Z", "T", "S"}

\* the lookahead of line 371 at index e: newline and one of the three
\* markers, or $
MenuLookahead(s, e) ==
    \/ AtDollar(s, e)
    \/ e < Len(s) /\ s[e] = "NL" /\ s[e + 1] \in SectionEnders

\* re.search of line 371: m.span(1) as <<start, end>>, the body being
\* s[start .. end-1]; <<0, 0>> when there is no match
MenuSpan(s) ==
    LET ms == {i \in 1..Len(s) : s[i] = "M"}
    IN  IF ms = {} THEN <<0, 0>>
        ELSE LET start == MinOf(ms) + 1
             IN  <<start, MinOf({e \in start..(Len(s) + 1) : MenuLookahead(s, e)})>>

HasMenu(s) == MenuSpan(s)[1] > 0

MenuBlock(s) == SubSeq(s, MenuSpan(s)[1], MenuSpan(s)[2] - 1)

\* the lookahead of line 376 at index e
BlockLookahead(b, e) ==
    \/ AtDollar(b, e)
    \/ e < Len(b) /\ b[e] = "NL" /\ DayLabelLen(b, e + 1) > 0

\* re.findall of line 376 from index p on
RECURSIVE FindDayBlocks(_, _)
FindDayBlocks(b, p) ==
    LET starts == {i \in p..Len(b) : DayLabelLen(b, i) > 0}
    IN  IF starts = {} THEN <<>>
        ELSE LET i == MinOf(starts)
                 e == MinOf({k \in (i + DayLabelLen(b, i))..(Len(b) + 1) :
                                BlockLookahead(b, k)})
             IN  <<SubSeq(b, i, e - 1)>> \o FindDayBlocks(b, e)

DayBlocks(b) == FindDayBlocks(b, 1)

\* trim_menu_days with day_blocks[:days + 1] for day_blocks[:days]
trim_menu_days_one_more(result_text, n) ==
    IF n <= 0 THEN result_text
    ELSE IF ~HasMenu(result_text) THEN result_text
    ELSE LET span == MenuSpan(result_text)
             day_blocks == DayBlocks(MenuBlock(result_text))
         IN  IF Len(day_blocks) <= n THEN result_text
             ELSE LET kept == Strip(Join(SubSeq(day_blocks, 1, n + 1), <<"NL">>))
                      new_menu == <<"NL">> \o kept \o <<"NL">>
                  IN  SubSeq(result_text, 1, span[1] - 1) \o new_menu
                        \o SubSeq(result_text, span[2], Len(result_text))

\* trim_menu_days with len(day_blocks) < days for len(day_blocks) <= days
trim_menu_days_strict(result_text, n) ==
    IF n <= 0 THEN result_text
    ELSE IF ~HasMenu(result_text) THEN result_text
    ELSE LET span == MenuSpan(result_text)
             day_blocks == DayBlocks(MenuBlock(result_text))
         IN  IF Len(day_blocks) < n THEN result_text
             ELSE LET kept == Strip(Join(SubSeq(day_blocks, 1, n), <<"NL">>))
                      new_menu == <<"NL">> \o kept \o <<"NL">>
                  IN  SubSeq(result_text, 1, span[1] - 1) \o new_menu
                        \o SubSeq(result_text, span[2], Len(result_text))

trim_menu_days(result_text, n) ==
    IF n <= 0 THEN result_text
    ELSE IF ~HasMenu(result_text) THEN result_text
    ELSE LET span == MenuSpan(result_text)
             day_blocks == DayBlocks(MenuBlock(result_text))
         IN  IF Len(day_blocks) <= n THEN result_text
             ELSE LET kept == Strip(Join(SubSeq(day_blocks, 1, n), <<"NL">>))
                      new_menu == <<"NL">> \o kept \o <<"NL">>
                  IN  SubSeq(result_text, 1, span[1] - 1) \o new_menu
                        \o SubSeq(result_text, span[2], Len(result_text))

-----------------------------------------------------------------------------
(* parse_shopping_list, app.py 322-354 *)

\* str.splitlines()
RECURSIVE SplitLines(_)
SplitLines(s) ==
    IF s = <<>> THEN <<>>
    ELSE LET nls == {i \in 1..Len(s) : s[i] = "NL"}
         IN  IF nls = {} THEN <<s>>
             ELSE LET i == MinOf(nls)
                  IN  <<SubSeq(s, 1, i - 1)>>
                        \o SplitLines(SubSeq(s, i + 1, Len(s)))

\* line 328: [ln.strip() for ln in block.splitlines() if ln.strip()]
RECURSIVE StripNonBlank(_)
StripNonBlank(ls) ==
    IF ls = <<>> THEN <<>>
    ELSE IF Strip(Head(ls)) = <<>> THEN StripNonBlank(Tail(ls))
    ELSE <<Strip(Head(ls))>> \o StripNonBlank(Tail(ls))

\* re.search of line 323: the index of the marker matched, 0 when no match
\* ([\s\S]+ needs one character after the marker)
ShopMatch(s) ==
    LET ms == {i \in 1..Len(s) : s[i] = "S" /\ i < Len(s)}
    IN  IF ms = {} THEN 0 ELSE MinOf(ms)

ShopLines(s) ==
    StripNonBlank(SplitLines(Strip(SubSeq(s, ShopMatch(s) + 1, Len(s)))))

\* the end of the digits a line starts with (the index after them)
DigitsEnd(ln) ==
    MinOf({k \in 1..(Len(ln) + 1) : k = Len(ln) + 1 \/ ~IsDigit(ln[k])})

Colons == {"a", "c"}

\* day_pattern of line 330, with a colon left out where the code wants one
IsDayHeader_optional_colon(ln) ==
    LET j == DigitsEnd(ln)
    IN  /\ j > 1 /\ j <= Len(ln) /\ ln[j] = "D"
        /\ \/ \A k \in (j + 1)..Len(ln) : ln[k] \in Space
           \/ /\ j + 1 <= Len(ln) /\ ln[j + 1] \in Colons
              /\ \A k \in (j + 2)..Len(ln) : ln[k] \in Space

\* day_pattern.match(ln), line 330: digits, the day suffix, one of the two
\* colons, whitespace up to the end
IsDayHeader(ln) ==
    LET j == DigitsEnd(ln)
    IN  /\ j > 1 /\ j + 1 <= Len(ln)
        /\ ln[j] = "D" /\ ln[j + 1] \in Colons
        /\ \A k \in (j + 2)..Len(ln) : ln[k] \in Space

\* md.group("day")
DayOf(ln) == SubSeq(ln, 1, DigitsEnd(ln))

BulletChars == {"b", "-", "SP"}

\* line 341: ln.lstrip(bullets).strip()
ItemOf(ln) == Strip(LStripChars(ln, BulletChars))

AllKey == <<"all">>
NoDay == <<>>

SetDefault(m, k) == IF k \in DOMAIN m THEN m ELSE (k :> <<>>) @@ m

\* the loop of lines 334-348 over the lines left
RECURSIVE ParseLines(_, _, _)
ParseLines(lines, day_map, current_day) ==
    IF lines = <<>> THEN day_map
    ELSE LET ln == Head(lines)
         IN  IF IsDayHeader(ln)
             THEN ParseLines(Tail(lines), SetDefault(day_map, DayOf(ln)), DayOf(ln))
             ELSE IF ItemOf(ln) = <<>>
             THEN ParseLines(Tail(lines), day_map, current_day)
             ELSE IF current_day # NoDay
             THEN ParseLines(Tail(lines),
                             [day_map EXCEPT ![current_day] = Append(@, ItemOf(ln))],
                             current_day)
             ELSE ParseLines(Tail(lines),
                             [SetDefault(day_map, AllKey)
                                 EXCEPT ![AllKey] = Append(@, ItemOf(ln))],
                             current_day)

\* k.endswith(day suffix)
IsDayKey(k) == k # <<>> /\ k[Len(k)] = "D"

NoParse == [found |-> FALSE, map |-> <<>>]

parse_shopping_list(result_text) ==
    IF ShopMatch(result_text) = 0 THEN NoParse
    ELSE LET day_map == ParseLines(ShopLines(result_text), <<>>, NoDay)
             has_day == \E k \in DOMAIN day_map : IsDayKey(k)
         IN  IF has_day THEN [found |-> TRUE, map |-> day_map]
             ELSE [found |-> TRUE,
                   map |-> (AllKey :> (IF AllKey \in DOMAIN day_map
                                       THEN day_map[AllKey] ELSE <<>>))]

-----------------------------------------------------------------------------
(* uniq_keep_order, app.py 357-364 *)

\* the loop of lines 360-363 with seen.add(x) left out
RECURSIVE UniqLoop_no_add(_, _, _)
UniqLoop_no_add(xs, seen, acc) ==
    IF xs = <<>> THEN acc
    ELSE IF Head(xs) \notin seen
         THEN UniqLoop_no_add(Tail(xs), seen, Append(acc, Head(xs)))
         ELSE UniqLoop_no_add(Tail(xs), seen, acc)

uniq_keep_order_no_add(xs) == UniqLoop_no_add(xs, {}, <<>>)

\* the loop of lines 360-363 over the elements left
RECURSIVE UniqLoop(_, _, _)
UniqLoop(xs, seen, acc) ==
    IF xs = <<>> THEN acc
    ELSE IF Head(xs) \notin seen
         THEN UniqLoop(Tail(xs), seen \cup {Head(xs)}, Append(acc, Head(xs)))
         ELSE UniqLoop(Tail(xs), seen, acc)

uniq_keep_order(xs) == UniqLoop(xs, {}, <<>>)

-----------------------------------------------------------------------------
(* Generated texts: concatenations of at most MaxSegs segments *)

RECURSIVE Concat(_)
Concat(ss) == IF ss = <<>> THEN <<>> ELSE Head(ss) \o Concat(Tail(ss))

TextsOf(Segs) ==
    UNION {{Concat(f) : f \in [1..k -> Segs]} : k \in 0..MaxSegs}

\* the menu marker, two day lines, a bare newline, the three enders, the
\* shopping-list marker also without a newline before it
TrimSegs ==
    { <<"M">>,
      <<"NL", "1", "D", "c", "x">>,
      <<"NL", "2", "D", "c", "y">>,
      <<"NL">>,
      <<"NL", "Z">>,
      <<"NL", "T">>,
      <<"S">> }

TextIdle ==
    /\ text = <<>> /\ reqDays = 0 /\ out = <<>> /\ parsed = NoParse
    /\ items = <<>> /\ uniq1 = <<>> /\ uniq2 = <<>> /\ phase = "in"

RunIdle ==
    /\ now = 0 /\ usage = <<>> /\ history = <<>> /\ subscriptions = <<>>
    /\ runs = 0
    /\ pc = <<>> /\ uid = <<>> /\ premium = <<>> /\ today = <<>>
    /\ mode = <<>> /\ days = <<>> /\ raw = <<>>
    /\ result = <<>> /\ count = <<>> /\ day_items = <<>>

-----------------------------------------------------------------------------
(* SpecTrim: trim_menu_days applied to every text over TrimSegs *)

InitTrim ==
    /\ text \in TextsOf(TrimSegs)
    /\ reqDays = 0 /\ out = <<>> /\ parsed = NoParse
    /\ items = <<>> /\ uniq1 = <<>> /\ uniq2 = <<>> /\ phase = "in"
    /\ RunIdle

Trim(n) ==
    /\ phase = "in"
    /\ reqDays' = n
    /\ out' = trim_menu_days(text, n)
    /\ phase' = "done"
    /\ UNCHANGED <<text, parsed, items, uniq1, uniq2, dbVars, runVars>>

NextTrim == \E n \in 1..MaxDays : Trim(n)

SpecTrim == InitTrim /\ [][NextTrim]_vars

-----------------------------------------------------------------------------
(* SpecShop: parse_shopping_list applied to every text over ShopSegs *)

\* the marker, day headers with either colon and with none, item lines
\* with and without bullets, a bullet alone, a space, a letter
ShopSegs ==
    { <<"S">>,
      <<"NL", "1", "D", "c">>,
      <<"NL", "2", "D", "a">>,
      <<"NL", "1", "D">>,
      <<"NL", "b", "x">>,
      <<"NL", "-", "SP", "y">>,
      <<"NL", "b">>,
      <<"SP">>,
      <<"x">> }

InitShop ==
    /\ text \in TextsOf(ShopSegs)
    /\ reqDays = 0 /\ out = <<>> /\ parsed = NoParse
    /\ items = <<>> /\ uniq1 = <<>> /\ uniq2 = <<>> /\ phase = "in"
    /\ RunIdle

Parse ==
    /\ phase = "in"
    /\ parsed' = parse_shopping_list(text)
    /\ phase' = "done"
    /\ UNCHANGED <<text, reqDays, out, items, uniq1, uniq2, dbVars, runVars>>

NextShop == Parse

SpecShop == InitShop /\ [][NextShop]_vars

-----------------------------------------------------------------------------
(* SpecUniq: uniq_keep_order applied to every list over ItemNames, twice *)

\* item strings; two of them differ in the case of one letter only
ItemNames == {"egg", "Egg", "tofu"}

ListsOf(S) == UNION {[1..k -> S] : k \in 0..MaxItems}

InitUniq ==
    /\ items \in ListsOf(ItemNames)
    /\ text = <<>> /\ reqDays = 0 /\ out = <<>> /\ parsed = NoParse
    /\ uniq1 = <<>> /\ uniq2 = <<>> /\ phase = "in"
    /\ RunIdle

Uniq ==
    /\ phase = "in"
    /\ uniq1' = uniq_keep_order(items)
    /\ phase' = "done"
    /\ UNCHANGED <<text, reqDays, out, parsed, items, uniq2, dbVars, runVars>>

UniqAgain ==
    /\ phase = "done"
    /\ uniq2' = uniq_keep_order(uniq1)
    /\ phase' = "twice"
    /\ UNCHANGED <<text, reqDays, out, parsed, items, uniq1, dbVars, runVars>>

NextUniq == Uniq \/ UniqAgain

SpecUniq == InitUniq /\ [][NextUniq]_vars

-----------------------------------------------------------------------------
(* The tables and the entitlement test, app.py 95-107, 113-130, 147-185,   *)
(* 264-280                                                                 *)

MAX_FREE_PER_DAY == 1
PREMIUM_DAYS_MAX == 7
FREE_DAYS_MAX == 1

Users == {"u1", "u2"}
Sessions == {"s1", "s2"}

\* the clock counts days: date.today() and time.time() are both read from it
Times == 0..MaxNow

\* what Stripe reports of a subscription: its status and period end
StripeSubs ==
    { [status |-> "active", current_period_end |-> 0],
      [status |-> "trialing", current_period_end |-> 1],
      [status |-> "canceled", current_period_end |-> 0] }

NoRow == [present |-> FALSE, status |-> "", current_period_end |-> 0]

\* upsert_subscription, lines 147-167: the row written for sub
SubRow(sub) ==
    [present |-> TRUE, status |-> sub.status,
     current_period_end |-> sub.current_period_end]

\* str.lower() on a status
Lower(st) ==
    CASE st = "ACTIVE" -> "active"
      [] st = "Active" -> "active"
      [] st = "TRIALING" -> "trialing"
      [] st = "Trialing" -> "trialing"
      [] OTHER -> st

\* is_premium(uid), lines 264-280, on the table subs at time t
is_premium(subs, u, t) ==
    LET sub == subs[u]
    IN  IF ~sub.present THEN FALSE
        ELSE IF Lower(sub.status) \in {"active", "trialing"}
             THEN IF sub.current_period_end = 0 THEN TRUE
                  ELSE sub.current_period_end > t
             ELSE FALSE

\* get_today_count(uid, day), lines 95-98
get_today_count(tbl, u, d) == tbl[<<u, d>>]

\* days_max of line 520, within the model's bound on days
DaysMax(prem) ==
    LET m == IF prem THEN PREMIUM_DAYS_MAX ELSE FREE_DAYS_MAX
    IN  IF m < MaxDays THEN m ELSE MaxDays

\* what the generator may return: a two-day menu with a per-day shopping
\* list, and a recipe cut short before its shopping list
GenTexts ==
    { <<"M", "NL", "1", "D", "c", "x", "NL", "2", "D", "c", "y",
        "NL", "S", "NL", "1", "D", "c", "NL", "b", "x">>,
      <<"Z", "NL", "b", "x">> }

Modes == {"menu", "recipe"}

Ended == {"idle", "done", "limited", "stopped", "crashed"}

-----------------------------------------------------------------------------
(* Spec: the page runs of app.py, 416-423, 490-499, 566-687 *)

Init ==
    /\ TextIdle
    /\ now = 0
    /\ usage = [k \in Users \X Times |-> 0]
    /\ history = <<>>
    /\ subscriptions = [u \in Users |-> NoRow]
    /\ runs = 0
    /\ pc = [s \in Sessions |-> "idle"]
    /\ uid \in {f \in [Sessions -> Users] : f["s1"] = "u1"}
    /\ premium = [s \in Sessions |-> FALSE]
    /\ today = [s \in Sessions |-> 0]
    /\ mode = [s \in Sessions |-> "menu"]
    /\ days = [s \in Sessions |-> 1]
    /\ raw = [s \in Sessions |-> <<>>]
    /\ result = [s \in Sessions |-> <<>>]
    /\ count = [s \in Sessions |-> 0]
    /\ day_items = [s \in Sessions |-> NoParse]

\* the clock advances
Tick ==
    /\ now < MaxNow
    /\ now' = now + 1
    /\ UNCHANGED <<textVars, usage, history, subscriptions, runs, runVars>>

\* The top of a script run of session s, whose uid u stays in its query
\* parameters (lines 82-89): the subscription row is synced from Stripe
\* (handle_return_from_stripe and refresh_subscription_from_stripe, lines
\* 416-421: a row is written, or nothing is) and premium is set (line 423).
StartRun(s, u, sync) ==
    /\ pc[s] \in Ended
    /\ u = uid[s]
    /\ runs < MaxRuns
    /\ runs' = runs + 1
    /\ subscriptions' = IF sync.present
                        THEN [subscriptions EXCEPT ![u] = sync]
                        ELSE subscriptions
    /\ today' = [today EXCEPT ![s] = now]
    /\ premium' = [premium EXCEPT ![s] = is_premium(subscriptions', u, now)]
    /\ day_items' = [day_items EXCEPT ![s] = NoParse]
    /\ pc' = [pc EXCEPT ![s] = "gate"]
    /\ UNCHANGED <<textVars, now, usage, history, uid, mode, days, raw,
                   result, count>>

\* lines 493-499 with the test on premium left out
GateStops_premium_too(prem, cnt) == cnt >= MAX_FREE_PER_DAY

\* lines 493-499: the quota gate stops the run
GateStops(prem, cnt) == ~prem /\ cnt >= MAX_FREE_PER_DAY

\* the script ends: its variables are gone
EndRun(s, how) ==
    /\ pc' = [pc EXCEPT ![s] = how]
    /\ uid' = uid
    /\ premium' = [premium EXCEPT ![s] = FALSE]
    /\ today' = [today EXCEPT ![s] = 0]
    /\ mode' = [mode EXCEPT ![s] = "menu"]
    /\ days' = [days EXCEPT ![s] = 1]
    /\ raw' = [raw EXCEPT ![s] = <<>>]
    /\ result' = [result EXCEPT ![s] = <<>>]
    /\ count' = [count EXCEPT ![s] = 0]

\* lines 490-499: today's count is read; the run goes on to the form, or
\* the quota gate stops it (st.stop())
QuotaGate(s) ==
    /\ pc[s] = "gate"
    /\ IF GateStops(premium[s], get_today_count(usage, uid[s], today[s]))
       THEN EndRun(s, "limited")
       ELSE /\ pc' = [pc EXCEPT ![s] = "form"]
            /\ UNCHANGED <<uid, premium, today, mode, days, raw, result, count>>
    /\ UNCHANGED <<textVars, dbVars, day_items>>

\* line 566: the button was not pressed, the script ends with the form
NoClick(s) ==
    /\ pc[s] = "form"
    /\ EndRun(s, "done")
    /\ UNCHANGED <<textVars, dbVars, day_items>>

\* lines 567-573: the button was pressed with nothing to send, st.stop()
EmptyInput(s) ==
    /\ pc[s] = "form"
    /\ EndRun(s, "stopped")
    /\ UNCHANGED <<textVars, dbVars, day_items>>

\* lines 668-669 with the test on recipe_mode left out
TrimmedResult_always(m, t, d) == trim_menu_days(t, d)

\* lines 668-669: the value result gets from the text t generated
TrimmedResult(m, t, d) == IF m # "recipe" THEN trim_menu_days(t, d) ELSE t

\* lines 650-657, 668-669: the generation call returns the text t, which
\* is trimmed in menu mode
GenerateOk(s, m, d, t) ==
    /\ pc[s] = "form"
    /\ d \in 1..DaysMax(premium[s])
    /\ mode' = [mode EXCEPT ![s] = m]
    /\ days' = [days EXCEPT ![s] = d]
    /\ raw' = [raw EXCEPT ![s] = t]
    /\ result' = [result EXCEPT ![s] = TrimmedResult(m, t, d)]
    /\ pc' = [pc EXCEPT ![s] = "count"]
    /\ UNCHANGED <<textVars, dbVars, uid, premium, today, count, day_items>>

\* lines 658-666: the generation call fails (rate limit, authentication,
\* anything else), st.stop()
GenerateFail(s) ==
    /\ pc[s] = "form"
    /\ EndRun(s, "stopped")
    /\ UNCHANGED <<textVars, dbVars, day_items>>

\* line 672: if not premium
CountsUsage(prem) == ~prem

\* lines 672, 102: increment_count is entered and reads the count, or is
\* skipped for a premium run
IncRead(s) ==
    /\ pc[s] = "count"
    /\ IF CountsUsage(premium[s])
       THEN /\ count' = [count EXCEPT
                            ![s] = get_today_count(usage, uid[s], today[s])]
            /\ pc' = [pc EXCEPT ![s] = "incwrite"]
       ELSE /\ count' = count
            /\ pc' = [pc EXCEPT ![s] = "save"]
    /\ UNCHANGED <<textVars, dbVars, uid, premium, today, mode, days, raw,
                   result, day_items>>

\* lines 103-107: INSERT when the count read was 0, UPDATE to count + 1
\* otherwise
IncWriteOk(s) ==
    LET k == <<uid[s], today[s]>>
    IN  /\ pc[s] = "incwrite"
        /\ count[s] = 0 => usage[k] = 0
        /\ usage' = [usage EXCEPT ![k] = count[s] + 1]
        /\ pc' = [pc EXCEPT ![s] = "save"]
        /\ UNCHANGED <<textVars, now, history, subscriptions, runs, uid,
                       premium, today, mode, days, raw, result, count,
                       day_items>>

\* line 104: the INSERT fails on the primary key (user_id, day), a row
\* having been inserted since the count was read; the exception ends the run
IncWriteFails(s) ==
    /\ pc[s] = "incwrite"
    /\ count[s] = 0 /\ usage[<<uid[s], today[s]>>] > 0
    /\ EndRun(s, "crashed")
    /\ UNCHANGED <<textVars, dbVars, day_items>>

\* lines 675-687: save_history (113-130) appends the row, then the
\* shopping list is parsed from result and displayed; the script ends
SaveHistory(s) ==
    /\ pc[s] = "save"
    /\ history' = Append(history, [user_id |-> uid[s], result |-> result[s]])
    /\ day_items' = [day_items EXCEPT ![s] = parse_shopping_list(result[s])]
    /\ EndRun(s, "done")
    /\ UNCHANGED <<textVars, now, usage, subscriptions, runs>>

Next ==
    \/ Tick
    \/ \E s \in Sessions, u \in Users :
          \E sync \in {NoRow} \cup {SubRow(x) : x \in StripeSubs} :
             StartRun(s, u, sync)
    \/ \E s \in Sessions : QuotaGate(s)
    \/ \E s \in Sessions : NoClick(s)
    \/ \E s \in Sessions : EmptyInput(s)
    \/ \E s \in Sessions, m \in Modes, d \in 1..MaxDays, t \in GenTexts :
          GenerateOk(s, m, d, t)
    \/ \E s \in Sessions : GenerateFail(s)
    \/ \E s \in Sessions : IncRead(s)
    \/ \E s \in Sessions : IncWriteOk(s)
    \/ \E s \in Sessions : IncWriteFails(s)
    \/ \E s \in Sessions : SaveHistory(s)

Spec == Init /\ [][Next]_vars

-----------------------------------------------------------------------------
(* Claims about trim_menu_days, checked under SpecTrim *)

Trimmed == phase = "done"

InBlocks == DayBlocks(MenuBlock(text))
OutBlocks == DayBlocks(MenuBlock(out))

OverProduced == Trimmed /\ HasMenu(text) /\ Len(InBlocks) > reqDays

\* all text before and all text after the span of the menu section body is
\* the input's, and the output's menu section starts where the input's did
OutsideSpanKept ==
    LET span == MenuSpan(text)
        tail == Len(text) + 1 - span[2]
    IN  /\ Len(out) >= (span[1] - 1) + tail
        /\ SubSeq(out, 1, span[1] - 1) = SubSeq(text, 1, span[1] - 1)
        /\ SubSeq(out, Len(out) + 1 - tail, Len(out))
             = SubSeq(text, span[2], Len(text))
        /\ MenuSpan(out)[1] = span[1]

\* the first n blocks, the n-th without the whitespace at its end
KeptBlocks(blocks, n) ==
    [i \in 1..n |-> IF i = n THEN RStrip(blocks[i]) ELSE blocks[i]]

SectionMarkers == {"M", "Z", "T", "S"}

\* the section of marker X: from the first X up to the next marker or the end
Section(s, X) ==
    LET xs == {i \in 1..Len(s) : s[i] = X}
    IN  IF xs = {} THEN <<>>
        ELSE LET i == MinOf(xs)
                 e == MinOf({k \in (i + 1)..(Len(s) + 1) :
                                k = Len(s) + 1 \/ s[k] \in SectionMarkers})
             IN  SubSeq(s, i, e - 1)

\* C3 as claimed: trim_menu_days never alters the materials, instructions
\* or shopping-list section, wherever their markers stand in the text.
C3_OtherSectionsUntouched ==
    Trimmed => \A X \in SectionEnders : Section(out, X) = Section(text, X)

\* C4: a text with no menu section, or with at most N day-blocks in it,
\* is returned unchanged.
C4_UnchangedWhenNotOver ==
    Trimmed /\ (~HasMenu(text) \/ Len(InBlocks) <= reqDays) => out = text

\* C4 witness: a menu section with at least one day-block and at most N
C4_Witness ==
    /\ Trimmed /\ HasMenu(text)
    /\ Len(InBlocks) >= 1 /\ Len(InBlocks) <= reqDays
    /\ out = text

-----------------------------------------------------------------------------
(* Claims about parse_shopping_list, checked under SpecShop *)

Parsed == phase = "done"

HasMarker(s) == \E i \in 1..Len(s) : s[i] = "S"

\* C1 as claimed: the keys of the mapping returned are never mixed: all of
\* them are day labels, or the only key is "all".
C1_KeysNeverMixed ==
    Parsed /\ parsed.found =>
        \/ \A k \in DOMAIN parsed.map : IsDayKey(k)
        \/ DOMAIN parsed.map = {AllKey}

\* the key an item at line i is filed under, hs being the indices of the
\* day headers: the day of the last header before i, "all" when none
KeyAt(lines, i, hs) ==
    LET before == {j \in hs : j < i}
    IN  IF before = {} THEN AllKey
        ELSE DayOf(lines[CHOOSE j \in before : \A o \in before : o <= j])

\* the items of lines i.. filed under key k, in source order
RECURSIVE ItemsUnder(_, _, _, _)
ItemsUnder(lines, i, k, hs) ==
    IF i > Len(lines) THEN <<>>
    ELSE IF i \notin hs /\ ItemOf(lines[i]) # <<>> /\ KeyAt(lines, i, hs) = k
         THEN <<ItemOf(lines[i])>> \o ItemsUnder(lines, i + 1, k, hs)
         ELSE ItemsUnder(lines, i + 1, k, hs)

\* the mapping the claim describes for the section's lines
FiledMap(lines, hs) ==
    LET dayKeys == {DayOf(lines[j]) : j \in hs}
        keys == dayKeys \cup
                 (IF dayKeys = {} \/ ItemsUnder(lines, 1, AllKey, hs) # <<>>
                  THEN {AllKey} ELSE {})
    IN  [k \in keys |-> ItemsUnder(lines, 1, k, hs)]

\* a line reading "<integer>日目", then as many colons as nc allows, then
\* nothing but whitespace
LabelLine(ln, nc) ==
    \E d \in 1..Len(ln), c \in nc :
        /\ d + 1 + c <= Len(ln)
        /\ \A k \in 1..d : ln[k] \in Digits
        /\ ln[d + 1] = "D"
        /\ \A k \in (d + 2)..(d + 1 + c) : ln[k] \in Colons
        /\ \A k \in (d + 2 + c)..Len(ln) : ln[k] \in Space

\* C5 as claimed: every item line is filed under the last day header before
\* it ("all" when there is none), bullets stripped, in source order and with
\* duplicates kept, a day header being a line of digits and the day suffix
\* with or without a colon after it.
C5_FiledUnderLastHeaderColonOptional ==
    Parsed /\ parsed.found =>
        parsed.map = FiledMap(ShopLines(text),
                              {i \in 1..Len(ShopLines(text)) :
                                 LabelLine(ShopLines(text)[i], {0, 1})})

\* C5 as amended: every item line is filed under the last day header before
\* it ("all" when there is none), bullets stripped, in source order and with
\* duplicates kept, a day header being a line of digits and the day suffix
\* followed by a colon (ASCII or full-width) and nothing else.
C5_FiledUnderLastHeader ==
    Parsed /\ parsed.found =>
        parsed.map = FiledMap(ShopLines(text),
                              {i \in 1..Len(ShopLines(text)) :
                                 LabelLine(ShopLines(text)[i], {1})})

\* C5 witness: two items were filed under one day header
C5_Witness ==
    /\ Parsed /\ parsed.found
    /\ \E k \in DOMAIN parsed.map : IsDayKey(k) /\ Len(parsed.map[k]) >= 2

\* C6 as claimed: "no list" is returned exactly when the shopping-list
\* marker is absent from the text; with the marker present a mapping is
\* returned, also when no item follows.
C6_NoListIffMarkerAbsent ==
    Parsed => (parsed.found <=> HasMarker(text))

-----------------------------------------------------------------------------
(* Claims about uniq_keep_order, checked under SpecUniq *)

Range(q) == {q[i] : i \in 1..Len(q)}

FirstIndex(q, v) == MinOf({i \in 1..Len(q) : q[i] = v})

\* C9: uniq_keep_order(x) holds every element of x once, in the order of
\* the first occurrences in x, and applying it again changes nothing.
C9_FirstOccurrencesIdempotent ==
    /\ phase \in {"done", "twice"} =>
         /\ Range(uniq1) = Range(items)
         /\ \A i, j \in 1..Len(uniq1) : i # j => uniq1[i] # uniq1[j]
         /\ \A i, j \in 1..Len(uniq1) :
                i < j => FirstIndex(items, uniq1[i]) < FirstIndex(items, uniq1[j])
    /\ phase = "twice" => uniq2 = uniq1

\* C9 witness: a list with a later duplicate was deduplicated, twice
C9_Witness ==
    /\ phase = "twice"
    /\ Len(uniq1) >= 2 /\ Len(uniq1) < Len(items)
    /\ items[Len(items)] = items[1]

-----------------------------------------------------------------------------
(* Claims about the page run, checked under Spec *)

UsageKey(s) == <<uid[s], today[s]>>

\* session s takes the step from pc value a to pc value b
Step(s, a, b) == pc[s] = a /\ pc'[s] = b

\* a failed generation call aborts the run, both stores unchanged
FailureLeavesStores ==
    \A s \in Sessions :
        Step(s, "form", "stopped") => usage' = usage /\ history' = history

\* the counter changes only in increment_count, which a run reaches only
\* after its generation call succeeded
CountedOnlyInIncrement ==
    usage' # usage => \E s \in Sessions : Step(s, "incwrite", "save")

\* a non-premium run whose generation succeeded raises the counter of
\* (user, today) by exactly one and goes on to append one history row
SuccessCountsOnce ==
    \A s \in Sessions :
        /\ Step(s, "count", "save") => premium[s]
        /\ pc[s] = "incwrite" /\ pc'[s] # "incwrite" =>
              /\ pc'[s] = "save"
              /\ usage' = [usage EXCEPT ![UsageKey(s)] = @ + 1]
        /\ pc[s] = "save" /\ pc'[s] # "save" =>
              /\ Len(history') = Len(history) + 1
              /\ SubSeq(history', 1, Len(history)) = history

\* C7 as claimed: the usage counter is incremented only after a successful
\* generation; a failed generation aborts the run with counter and history
\* unchanged; a successful one by a non-premium user raises the counter of
\* (user, today) by exactly 1 and appends exactly one history entry.
C7_CountedOncePerSuccess ==
    [][FailureLeavesStores /\ CountedOnlyInIncrement /\ SuccessCountsOnce]_vars

\* the text a run shows and stores for the generated text raw
ExpectedResult(s) ==
    IF mode[s] = "menu" THEN trim_menu_days(raw[s], days[s]) ELSE raw[s]

\* C8: in menu mode the text stored in the history row and the text given to
\* parse_shopping_list are trim_menu_days(generated text, day count); in
\* recipe mode they are the generated text itself.
C8_TrimBeforeSaveAndParse ==
    [][\A s \in Sessions :
          Step(s, "save", "done") =>
             /\ history' = Append(history, [user_id |-> uid[s],
                                            result |-> ExpectedResult(s)])
             /\ day_items'[s] = parse_shopping_list(ExpectedResult(s))]_vars

\* C8 witness: a run ended with a trimmed text stored and parsed
C8_Witness ==
    \E s \in Sessions :
        /\ pc[s] = "done" /\ day_items[s].found
        /\ history # <<>>
        /\ history[Len(history)].result \notin GenTexts
        /\ day_items[s] = parse_shopping_list(history[Len(history)].result)

\* the entitlement the claim words: a row whose status is active or
\* trialing and whose period end is 0 or later than the time t
Entitled(subs, u, t) ==
    /\ subs[u].present
    /\ subs[u].status \in {"active", "trialing"}
    /\ (subs[u].current_period_end = 0 \/ subs[u].current_period_end > t)

\* C10: premium is the entitlement (a row with status active or trialing and
\* period end 0 or later than now; no row or another status is not premium);
\* a premium run is never stopped by the quota gate, whatever today's count,
\* and no step of a premium run changes the usage counter.
C10_PremiumIsUnlimited ==
    [][\A s \in Sessions :
          /\ pc'[s] = "gate" /\ pc[s] # "gate" =>
                (premium'[s] <=> Entitled(subscriptions', uid[s], now))
          /\ pc[s] = "gate" /\ premium[s] => pc'[s] \in {"gate", "form"}
          /\ premium[s] /\ pc'[s] # pc[s] => usage' = usage]_vars

\* C10 witness: a premium run has generated with today's count at the limit
C10_Witness ==
    \E s \in Sessions :
        /\ premium[s] /\ pc[s] = "save"
        /\ usage[UsageKey(s)] >= MAX_FREE_PER_DAY

\* a non-premium run's generation call is within the quota: nothing is
\* counted yet for (user, today), and no other non-premium run of that user
\* and day has generated without having finished counting
GenerationWithinQuota ==
    \A s \in Sessions :
        Step(s, "form", "count") /\ ~premium[s] =>
           /\ usage[UsageKey(s)] < MAX_FREE_PER_DAY
           /\ \A o \in Sessions \ {s} :
                 ~(/\ ~premium[o] /\ UsageKey(o) = UsageKey(s)
                   /\ pc[o] \in {"count", "incwrite"})

\* no stored count is above the free limit
CountWithinQuota ==
    \A k \in DOMAIN usage' : usage'[k] <= MAX_FREE_PER_DAY

\* increment_count, once entered, ends with the stored count one above
\* what it was when the write ran: no failed INSERT, no lost update
IncrementNeverFailsOrLoses ==
    \A s \in Sessions :
        pc[s] = "incwrite" /\ pc'[s] # "incwrite" =>
           /\ pc'[s] = "save"
           /\ usage'[UsageKey(s)] = usage[UsageKey(s)] + 1

\* C11 as claimed: for a non-premium user at most MAX_FREE_PER_DAY
\* generation calls are issued and counted per day under every interleaving
\* of that user's page runs: the stored count of (user, day) never exceeds
\* the limit, and increment_count never loses an update or fails on the
\* (user_id, day) primary key.
C11_QuotaHoldsUnderInterleaving ==
    [][GenerationWithinQuota /\ CountWithinQuota
         /\ IncrementNeverFailsOrLoses]_vars

====
